---- MODULE Spec2Model ----
(***************************************************************************)
(* TLV scanner, decoder and encoder of src/core/common/tlvs.cpp, operating *)
(* on a message buffer (a byte sequence with a read offset).               *)
(***************************************************************************)
EXTENDS Integers, Sequences, FiniteSets, TLC

VARIABLES
    msg,      \* the message's bytes; its length is Len(msg)
    mOffset,  \* the message's read offset (Message::GetOffset)
    recs,     \* history: the records appended whole, in order
    clean,    \* history: msg is exactly the concatenation of recs
    dangling, \* history: headers appended whose value's append then failed
    nMods,    \* history: how many times the message's bytes changed
    pc,       \* "idle" between calls, "done" right after one
    last      \* the call just made: operation, arguments, result, outputs

vars == <<msg, mOffset, recs, clean, dangling, nMods, pc, last>>

(***************************************************************************)
(* Bounds of the model.                                                    *)
(***************************************************************************)
MaxMods == 2        \* modifications of the message under Spec
MaxEncMods == 1     \* modifications of the message under SpecEnc

(***************************************************************************)
(* Program constants.                                                      *)
(***************************************************************************)
kExtendedLength == 255
kBaseTlvMaxLength == 254
SizeofTlv == 2
SizeofExtendedTlv == 4
Uint8Mod == 256
Uint16Mod == 65536

kErrorNone == "None"
kErrorNotFound == "NotFound"
kErrorParse == "Parse"
kErrorNoBufs == "NoBufs"
kErrorRange == "Range"

NoOut == -1         \* an output the call has not assigned

Min(a, b) == IF a <= b THEN a ELSE b

(***************************************************************************)
(* The message buffer's interface.                                         *)
(***************************************************************************)
\* Message::Read(offset, object): all n bytes or a failure.
MsgRead(m, aOffset, n) ==
    IF aOffset + n <= Len(m)
    THEN [error |-> kErrorNone, bytes |-> SubSeq(m, aOffset + 1, aOffset + n)]
    ELSE [error |-> kErrorRange, bytes |-> <<>>]

\* Message::ReadBytes(offset, buf, n): copies the bytes the message holds.
MsgReadBytes(m, aOffset, n) ==
    IF aOffset >= Len(m) THEN <<>>
    ELSE SubSeq(m, aOffset + 1, Min(aOffset + n, Len(m)))

\* Message::AppendBytes: grows the message, or fails and leaves it alone.
MsgAppendBytes(m, bytes, ok) ==
    IF ok THEN [error |-> kErrorNone, msg |-> m \o bytes]
    ELSE [error |-> kErrorNoBufs, msg |-> m]

\* A caller's buffer of n cells, none written yet.
Unwritten(n) == [i \in 1..n |-> NoOut]

\* memcpy of bytes to the start of a caller's buffer.
CopyInto(buf, bytes) ==
    [i \in 1..Len(buf) |-> IF i <= Len(bytes) THEN bytes[i] ELSE buf[i]]

(***************************************************************************)
(* Record header model.                                                    *)
(***************************************************************************)
\* Tlv::IsExtended on a header's bytes <<type, length, ...>>.
IsExtended(hdr) == hdr[2] = kExtendedLength

\* ExtendedTlv::GetLength: the 16-bit big-endian length after the sentinel.
ExtGetLength(hdr) == hdr[3] * Uint8Mod + hdr[4]

GetSizeNoHeader(hdr) ==
    IF IsExtended(hdr) THEN ExtGetLength(hdr) ELSE hdr[2]

\* Tlv::GetSize, a uint32_t.
GetSize(hdr) ==
    IF IsExtended(hdr) THEN SizeofExtendedTlv + ExtGetLength(hdr)
    ELSE SizeofTlv + hdr[2]

\* A host integer of up to 32 bits, kept as two 16-bit halves.
U32(n) == [hi |-> n \div Uint16Mod, lo |-> n % Uint16Mod]

\* An integer output the call has not assigned.
NoUint == [hi |-> NoOut, lo |-> NoOut]

\* The bytes in memory, first to last, as a big-endian number (w <= 2).
BigEndian16(bytes) ==
    IF Len(bytes) = 0 THEN 0
    ELSE IF Len(bytes) = 1 THEN bytes[1]
    ELSE bytes[1] * Uint8Mod + bytes[2]

\* Encoding::BigEndian::HostSwap of the w bytes read into aValue.
BigEndianToHost(bytes) ==
    IF Len(bytes) <= 2 THEN [hi |-> 0, lo |-> BigEndian16(bytes)]
    ELSE [hi |-> BigEndian16(SubSeq(bytes, 1, 2)), lo |-> BigEndian16(SubSeq(bytes, 3, 4))]

\* Encoding::BigEndian::HostSwap of a value, as the w bytes then in memory.
HostToBigEndian(x, w) ==
    LET all == <<x.hi \div Uint8Mod, x.hi % Uint8Mod, x.lo \div Uint8Mod, x.lo % Uint8Mod>>
    IN SubSeq(all, 5 - w, 4)

HostToLittleEndian(x, w) ==
    LET all == <<x.lo % Uint8Mod, x.lo \div Uint8Mod, x.hi % Uint8Mod, x.hi \div Uint8Mod>>
    IN SubSeq(all, 1, w)

(***************************************************************************)
(* Scanner: Tlv::Find.                                                     *)
(***************************************************************************)
FindOffsetInRangeAlways(offset, remainingLen) == TRUE

\* VerifyOrExit(offset <= remainingLen)
FindOffsetInRange(offset, remainingLen) == offset <= remainingLen

\* VerifyOrExit(extTlv.GetLength() <= (remainingLen - sizeof(ExtendedTlv))):
\* the difference is a size_t, and below zero it wraps above every uint16_t.
ExtLengthFits(extLen, remainingLen) ==
    IF remainingLen < SizeofExtendedTlv THEN TRUE
    ELSE extLen <= remainingLen - SizeofExtendedTlv

FindSizeFitsAlways(size, remainingLen) == TRUE

\* VerifyOrExit(size <= remainingLen)
FindSizeFits(size, remainingLen) == size <= remainingLen

TypeMatchesAny(tlvType, aType) == TRUE

\* tlv.GetType() == aType
TypeMatches(tlvType, aType) == tlvType = aType

FindExitLeaky(offset, reads, iters, visited) ==
    [error |-> kErrorNotFound, offset |-> offset, size |-> NoOut, isExt |-> NoOut,
     reads |-> reads, iters |-> iters, visited |-> visited, diverged |-> FALSE]

\* The exit label reached with error still kErrorNotFound: no output assigned.
FindExit(offset, reads, iters, visited) ==
    [error |-> kErrorNotFound, offset |-> NoOut, size |-> NoOut, isExt |-> NoOut,
     reads |-> reads, iters |-> iters, visited |-> visited, diverged |-> FALSE]

\* The record's size as the loop computes it from the header read.
FindSizeNoHeader(hdr) == GetSizeNoHeader(hdr)

FindSize(hdr) == GetSize(hdr)

\* The while (true) loop. reads: the reads issued so far; iters: offset and
\* remainingLen at the head of every iteration; visited: the records matched
\* or stepped over. fuel cuts a loop that does not end.
RECURSIVE FindLoop(_, _, _, _, _, _, _, _)
FindLoop(m, aType, offset, remainingLen, reads, iters, visited, fuel) ==
    LET its == Append(iters, [offset |-> offset, remainingLen |-> remainingLen])
        r2 == Append(reads, <<offset, SizeofTlv>>)
        r4 == Append(r2, <<offset, SizeofExtendedTlv>>)
        rdTlv == MsgRead(m, offset, SizeofTlv)
        rdExt == MsgRead(m, offset, SizeofExtendedTlv)
        isExt == rdTlv.bytes[2] = kExtendedLength
        rs == IF isExt THEN r4 ELSE r2
        hdr == IF isExt THEN rdExt.bytes ELSE rdTlv.bytes
        size == FindSize(hdr)
        vis == Append(visited, [offset |-> offset, size |-> size,
                                type |-> hdr[1], isExt |-> isExt])
    IN IF fuel = 0
       THEN [FindExit(offset, reads, iters, visited) EXCEPT !.diverged = TRUE]
       ELSE IF rdTlv.error # kErrorNone THEN FindExit(offset, r2, its, visited)
       ELSE IF isExt /\ rdExt.error # kErrorNone THEN FindExit(offset, r4, its, visited)
       ELSE IF isExt /\ ~ExtLengthFits(ExtGetLength(rdExt.bytes), remainingLen)
       THEN FindExit(offset, r4, its, visited)
       ELSE IF ~FindSizeFits(size, remainingLen) THEN FindExit(offset, rs, its, visited)
       ELSE IF TypeMatches(hdr[1], aType)
       THEN [error |-> kErrorNone, offset |-> offset, size |-> size % Uint16Mod,
             isExt |-> IF isExt THEN 1 ELSE 0,
             reads |-> rs, iters |-> its, visited |-> vis, diverged |-> FALSE]
       ELSE FindLoop(m, aType, (offset + size) % Uint16Mod,
                     (remainingLen - size) % Uint16Mod, rs, its, vis, fuel - 1)

\* Tlv::Find on message m with read offset mOff.
Find(m, mOff, aType) ==
    IF ~FindOffsetInRange(mOff, Len(m)) THEN FindExit(mOff, <<>>, <<>>, <<>>)
    ELSE FindLoop(m, aType, mOff, (Len(m) - mOff) % Uint16Mod,
                  <<>>, <<>>, <<>>, Len(m) + 2)

\* Tlv::FindTlvOffset
FindTlvOffset(m, mOff, aType) ==
    LET f == Find(m, mOff, aType)
    IN [error |-> f.error, offset |-> f.offset, reads |-> f.reads]

\* Tlv::FindTlvValueOffset
FindTlvValueOffset(m, mOff, aType) ==
    LET f == Find(m, mOff, aType)
        hs == IF f.isExt = 0 THEN SizeofTlv ELSE SizeofExtendedTlv
    IN IF f.error # kErrorNone
       THEN [error |-> f.error, valueOffset |-> NoOut, length |-> NoOut, reads |-> f.reads]
       ELSE [error |-> kErrorNone, valueOffset |-> (f.offset + hs) % Uint16Mod,
             length |-> (f.size - hs) % Uint16Mod, reads |-> f.reads]

(***************************************************************************)
(* Decoder.                                                                *)
(***************************************************************************)
\* VerifyOrExit(aOffset + size <= aMessage.GetLength(), error = kErrorParse)
ReadTlvFits(aOffset, size, msgLength) == aOffset + size <= msgLength

\* Tlv::ReadTlv
ReadTlv(m, aOffset) ==
    LET rdTlv == MsgRead(m, aOffset, SizeofTlv)
        rdExt == MsgRead(m, aOffset, SizeofExtendedTlv)
        r2 == <<<<aOffset, SizeofTlv>>>>
        r4 == Append(r2, <<aOffset, SizeofExtendedTlv>>)
        none(e, rs) == [error |-> e, length |-> NoOut, valueOffset |-> NoOut, reads |-> rs]
        done(hs, len, rs) ==
            [error |-> IF ReadTlvFits(aOffset, hs + len, Len(m)) THEN kErrorNone
                       ELSE kErrorParse,
             length |-> len, valueOffset |-> (aOffset + hs) % Uint16Mod, reads |-> rs]
    IN IF rdTlv.error # kErrorNone THEN none(rdTlv.error, r2)
       ELSE IF ~IsExtended(rdTlv.bytes) THEN done(SizeofTlv, rdTlv.bytes[2], r2)
       ELSE IF rdExt.error # kErrorNone THEN none(rdExt.error, r4)
       ELSE done(SizeofExtendedTlv, ExtGetLength(rdExt.bytes), r4)

MinLengthOkAlways(length, aMinLength) == TRUE

\* VerifyOrExit(length >= aMinLength, error = kErrorParse)
MinLengthOk(length, aMinLength) == length >= aMinLength

\* Tlv::ReadTlvValue; value is the caller's buffer of aMinLength bytes.
ReadTlvValue(m, aOffset, aMinLength) ==
    LET r == ReadTlv(m, aOffset)
    IN IF r.error # kErrorNone
       THEN [error |-> r.error, value |-> Unwritten(aMinLength), reads |-> r.reads]
       ELSE IF ~MinLengthOk(r.length, aMinLength)
       THEN [error |-> kErrorParse, value |-> Unwritten(aMinLength), reads |-> r.reads]
       ELSE [error |-> kErrorNone,
             value |-> CopyInto(Unwritten(aMinLength),
                                MsgReadBytes(m, r.valueOffset, aMinLength)),
             reads |-> Append(r.reads, <<r.valueOffset, aMinLength>>)]

\* Tlv::ReadUintTlv<UintType>, sizeof(UintType) = w.
ReadUintTlv(m, aOffset, w) ==
    LET r == ReadTlvValue(m, aOffset, w)
    IN IF r.error # kErrorNone
       THEN [error |-> r.error, value |-> NoUint, reads |-> r.reads]
       ELSE [error |-> kErrorNone, value |-> BigEndianToHost(r.value), reads |-> r.reads]

\* aValue[length + 1] = '\0': the index the terminator is written at.
StringTerminatorIndex(length) == length + 1

\* Tlv::ReadStringTlv. value holds aValue[0 .. aMaxStringLength + 1] at
\* positions 1 .. aMaxStringLength + 2: the caller's aMaxStringLength + 1
\* bytes and the byte after them.
ReadStringTlv(m, aOffset, aMaxStringLength) ==
    LET r == ReadTlv(m, aOffset)
        length == Min(r.length, aMaxStringLength)
        buf == Unwritten(aMaxStringLength + 2)
        copied == CopyInto(buf, MsgReadBytes(m, r.valueOffset, length))
    IN IF r.error # kErrorNone
       THEN [error |-> r.error, value |-> buf, length |-> NoOut, reads |-> r.reads]
       ELSE [error |-> kErrorNone,
             value |-> [copied EXCEPT ![StringTerminatorIndex(length) + 1] = 0],
             length |-> r.length,
             reads |-> Append(r.reads, <<r.valueOffset, length>>)]

\* Tlv::FindStringTlv
FindStringTlv(m, mOff, aType, aMaxStringLength) ==
    LET f == FindTlvOffset(m, mOff, aType)
        r == ReadStringTlv(m, f.offset, aMaxStringLength)
    IN IF f.error # kErrorNone
       THEN [error |-> f.error, value |-> Unwritten(aMaxStringLength + 2),
             length |-> NoOut, reads |-> f.reads]
       ELSE [r EXCEPT !.reads = f.reads \o r.reads]

\* Tlv::FindUintTlv<UintType>
FindUintTlv(m, mOff, aType, w) ==
    LET f == FindTlvOffset(m, mOff, aType)
        r == ReadUintTlv(m, f.offset, w)
    IN IF f.error # kErrorNone
       THEN [error |-> f.error, value |-> NoUint, reads |-> f.reads]
       ELSE [r EXCEPT !.reads = f.reads \o r.reads]

\* Tlv::FindTlv(aMessage, aType, aValue, aLength)
FindTlv(m, mOff, aType, aLength) ==
    LET f == FindTlvValueOffset(m, mOff, aType)
    IN IF f.error # kErrorNone
       THEN [error |-> f.error, value |-> Unwritten(aLength), reads |-> f.reads]
       ELSE IF ~MinLengthOk(f.length, aLength)
       THEN [error |-> kErrorParse, value |-> Unwritten(aLength), reads |-> f.reads]
       ELSE [error |-> kErrorNone,
             value |-> CopyInto(Unwritten(aLength), MsgReadBytes(m, f.valueOffset, aLength)),
             reads |-> Append(f.reads, <<f.valueOffset, aLength>>)]

(***************************************************************************)
(* Encoder.                                                                *)
(***************************************************************************)
NeedValueAppendAlways(aLength) == TRUE

\* VerifyOrExit(aLength > 0) before the value's append
NeedValueAppend(aLength) == aLength > 0

\* Tlv::AppendTlv. aValue: the bytes aValue points at; hdrOk, valOk: whether
\* the message can grow for the header and for the value; assertFatal:
\* whether the build's OT_ASSERT stops the program. asserted: OT_ASSERT's
\* condition was false. appends: the appends attempted.
AppendTlv(m, aType, aValue, aLength, hdrOk, valOk, assertFatal) ==
    LET asserted == ~(aLength <= kBaseTlvMaxLength)
        hdr == MsgAppendBytes(m, <<aType, aLength>>, hdrOk)
        val == MsgAppendBytes(hdr.msg, SubSeq(aValue, 1, aLength), valOk)
    IN IF asserted /\ assertFatal
       THEN [error |-> "Abort", msg |-> m, asserted |-> TRUE, appends |-> 0]
       ELSE IF hdr.error # kErrorNone
       THEN [error |-> hdr.error, msg |-> hdr.msg, asserted |-> asserted, appends |-> 1]
       ELSE IF ~NeedValueAppend(aLength)
       THEN [error |-> kErrorNone, msg |-> hdr.msg, asserted |-> asserted, appends |-> 1]
       ELSE [error |-> val.error, msg |-> val.msg, asserted |-> asserted, appends |-> 2]

\* The text argument of a call that passes no string (aValue == nullptr).
NullText == <<NoOut>>

\* StringLength(aValue, aMaxStringLength); text holds the characters before
\* the terminating null.
StringLength(text, aMaxLength) == Min(Len(text), aMaxLength)

\* Tlv::AppendStringTlv
AppendStringTlv(m, aType, aMaxStringLength, text, hdrOk, valOk, assertFatal) ==
    LET length == IF text = NullText THEN 0 ELSE StringLength(text, aMaxStringLength)
    IN AppendTlv(m, aType, text, length % Uint8Mod, hdrOk, valOk, assertFatal)

AppendUintTlvNoSwap(m, aType, aValue, w, hdrOk, valOk) ==
    AppendTlv(m, aType, HostToLittleEndian(aValue, w), w, hdrOk, valOk, FALSE)

\* Tlv::AppendUintTlv<UintType>, sizeof(UintType) = w.
AppendUintTlv(m, aType, aValue, w, hdrOk, valOk) ==
    AppendTlv(m, aType, HostToBigEndian(aValue, w), w, hdrOk, valOk, FALSE)

\* Tlv::AppendTo; tlv holds the bytes of the Tlv object in memory.
AppendTo(m, tlv, ok) ==
    MsgAppendBytes(m, SubSeq(tlv, 1, GetSize(tlv) % Uint16Mod), ok)

(***************************************************************************)
(* Inputs of the calls.                                                    *)
(***************************************************************************)
Types == {5, 7}
FindTypes == {5, 7, 9}
Widths == {1, 2, 4}

ScanValues == {<<>>, <<1, 2, 3, 4>>}
Fill254 == [i \in 1..kBaseTlvMaxLength |-> i]
EncValues == {<<>>, <<1, 2, 3, 4>>, Fill254}

\* Extended Tlv objects in memory: type, 0xFF, 16-bit length, value.
ExtTlvs == {<<5, 255, 0, 2, 1, 2>>, <<7, 255, 0, 0>>}

\* Bytes a peer sends: an extended header announcing 65534 value bytes.
RawChunks == {<<5, 255, 255, 254>>}

\* 0xC8, 0x0102, 0x01020304 and 0xFFFEFDFC
UintValues == {U32(200), U32(258), U32(16909060), [hi |-> 65534, lo |-> 65020]}
UintFits(x, w) ==
    \/ w = 4
    \/ w = 2 /\ x.hi = 0
    \/ w = 1 /\ x.hi = 0 /\ x.lo < Uint8Mod
UintArgs == {a \in Widths \X UintValues : UintFits(a[2], a[1])}

Text3 == <<97, 98, 99>>
Text255 == [i \in 1..255 |-> 97 + (i % 26)]
Texts == {NullText, <<>>, Text3, Text255}
MaxStringLengths == {0, 2, 255}

MinLengths == {2, 4}
ReadStringLengths == {1, 4}

(***************************************************************************)
(* State machine: one action per call.                                     *)
(***************************************************************************)
NoCall == [op |-> "None"]

NewRec(by, off, aType, val, ext, num) ==
    [by |-> by, off |-> off, type |-> aType, val |-> val, ext |-> ext, num |-> num]

Init ==
    /\ msg = <<>>
    /\ mOffset = 0
    /\ recs = <<>>
    /\ clean = TRUE
    /\ dangling = {}
    /\ nMods = 0
    /\ pc = "idle"
    /\ last = NoCall

\* The effect of an encoder call with result r that appended record rec.
Appended(r, rec, whole) ==
    /\ msg' = r.msg
    /\ recs' = IF whole THEN Append(recs, rec) ELSE recs
    /\ clean' = (clean /\ (whole \/ r.msg = msg))
    /\ dangling' = IF r.error # kErrorNone /\ r.msg # msg
                   THEN dangling \cup {[off |-> Len(msg), len |-> r.msg[Len(msg) + 2]]}
                   ELSE dangling
    /\ nMods' = IF r.msg # msg THEN nMods + 1 ELSE nMods
    /\ pc' = IF r.error = "Abort" THEN "aborted" ELSE "done"
    /\ UNCHANGED mOffset

CallAppendTlv(Vals, max) ==
    /\ pc = "idle" /\ nMods < max
    /\ \E aType \in Types, aValue \in Vals, hdrOk \in BOOLEAN, valOk \in BOOLEAN :
         LET r == AppendTlv(msg, aType, aValue, Len(aValue), hdrOk, valOk, FALSE)
         IN /\ Appended(r, NewRec("AppendTlv", Len(msg), aType, aValue, FALSE, NoUint),
                        r.error = kErrorNone)
            /\ last' = [op |-> "AppendTlv", aType |-> aType, aValue |-> aValue,
                        aLength |-> Len(aValue), hdrOk |-> hdrOk, valOk |-> valOk,
                        error |-> r.error, asserted |-> r.asserted,
                        appends |-> r.appends, preMsg |-> msg, preOffset |-> mOffset]

CallAppendUintTlv(max) ==
    /\ pc = "idle" /\ nMods < max
    /\ \E aType \in Types, a \in UintArgs, hdrOk \in BOOLEAN, valOk \in BOOLEAN :
         LET r == AppendUintTlv(msg, aType, a[2], a[1], hdrOk, valOk)
         IN /\ Appended(r, NewRec("AppendUintTlv", Len(msg), aType,
                                  SubSeq(r.msg, Len(msg) + 3, Len(r.msg)), FALSE, a[2]),
                        r.error = kErrorNone)
            /\ last' = [op |-> "AppendUintTlv", aType |-> aType, aValue |-> a[2],
                        aLength |-> a[1], hdrOk |-> hdrOk, valOk |-> valOk,
                        error |-> r.error, asserted |-> r.asserted,
                        appends |-> r.appends, preMsg |-> msg, preOffset |-> mOffset]

CallAppendStringTlv(max) ==
    /\ pc = "idle" /\ nMods < max
    /\ \E aType \in Types, aMax \in MaxStringLengths, text \in Texts,
          hdrOk \in BOOLEAN, valOk \in BOOLEAN, assertFatal \in BOOLEAN :
         LET r == AppendStringTlv(msg, aType, aMax, text, hdrOk, valOk, assertFatal)
         IN /\ Appended(r, NewRec("AppendStringTlv", Len(msg), aType,
                                  SubSeq(r.msg, Len(msg) + 3, Len(r.msg)), FALSE, NoUint),
                        r.error = kErrorNone /\ ~r.asserted)
            /\ last' = [op |-> "AppendStringTlv", aType |-> aType, aValue |-> text,
                        aLength |-> aMax, hdrOk |-> hdrOk, valOk |-> valOk,
                        error |-> r.error, asserted |-> r.asserted,
                        appends |-> r.appends, preMsg |-> msg, preOffset |-> mOffset]

CallAppendTo(max) ==
    /\ pc = "idle" /\ nMods < max
    /\ \E tlv \in ExtTlvs, ok \in BOOLEAN :
         LET r == AppendTo(msg, tlv, ok)
         IN /\ Appended(r, NewRec("AppendTo", Len(msg), tlv[1], SubSeq(tlv, 5, Len(tlv)),
                                  TRUE, NoUint),
                        r.error = kErrorNone)
            /\ last' = [op |-> "AppendTo", tlv |-> tlv, error |-> r.error,
                        preMsg |-> msg, preOffset |-> mOffset]

\* Bytes of a received frame reach the message as they arrived.
ReceiveBytes(max) ==
    /\ pc = "idle" /\ nMods < max
    /\ \E chunk \in RawChunks :
         /\ msg' = msg \o chunk
         /\ clean' = FALSE
         /\ nMods' = nMods + 1
    /\ UNCHANGED <<mOffset, recs, dangling, pc, last>>

\* Message::SetLength by the caller: the last byte is cut off.
SetLength(max) ==
    /\ pc = "idle" /\ nMods < max /\ Len(msg) > 0
    /\ msg' = SubSeq(msg, 1, Len(msg) - 1)
    /\ clean' = FALSE
    /\ dangling' = {d \in dangling : d.off + SizeofTlv <= Len(msg')}
    /\ nMods' = nMods + 1
    /\ UNCHANGED <<mOffset, recs, pc, last>>

\* Message::SetOffset by the caller. Find guards against an offset past the
\* message's end, so the offset ranges one past it.
SetOffset ==
    /\ pc = "idle"
    /\ \E o \in 0..(Len(msg) + 1) : o # mOffset /\ mOffset' = o
    /\ UNCHANGED <<msg, recs, clean, dangling, nMods, pc, last>>

\* A call that only reads the message.
Reads(call) ==
    /\ pc = "idle"
    /\ last' = call
    /\ pc' = "done"
    /\ UNCHANGED <<msg, mOffset, recs, clean, dangling, nMods>>

CallFind ==
    \E aType \in FindTypes :
        LET r == Find(msg, mOffset, aType)
        IN Reads([op |-> "Find", aType |-> aType, error |-> r.error,
                  offset |-> r.offset, size |-> r.size, isExt |-> r.isExt,
                  reads |-> r.reads, iters |-> r.iters, visited |-> r.visited,
                  diverged |-> r.diverged])

CallFindTlvValueOffset ==
    \E aType \in FindTypes :
        LET r == FindTlvValueOffset(msg, mOffset, aType)
        IN Reads([op |-> "FindTlvValueOffset", aType |-> aType, error |-> r.error,
                  valueOffset |-> r.valueOffset, length |-> r.length, reads |-> r.reads])

CallReadTlv ==
    LET r == ReadTlv(msg, mOffset)
    IN Reads([op |-> "ReadTlv", aOffset |-> mOffset, error |-> r.error,
              length |-> r.length, valueOffset |-> r.valueOffset, reads |-> r.reads])

CallReadTlvValue(Mins) ==
    \E aMinLength \in Mins :
        LET r == ReadTlvValue(msg, mOffset, aMinLength)
        IN Reads([op |-> "ReadTlvValue", aOffset |-> mOffset, aMinLength |-> aMinLength,
                  error |-> r.error, value |-> r.value, reads |-> r.reads])

CallReadUintTlv ==
    \E w \in Widths :
        LET r == ReadUintTlv(msg, mOffset, w)
        IN Reads([op |-> "ReadUintTlv", aOffset |-> mOffset, width |-> w,
                  error |-> r.error, value |-> r.value, reads |-> r.reads])

CallReadStringTlv ==
    \E aMax \in ReadStringLengths :
        LET r == ReadStringTlv(msg, mOffset, aMax)
        IN Reads([op |-> "ReadStringTlv", aOffset |-> mOffset, aMaxStringLength |-> aMax,
                  error |-> r.error, value |-> r.value, length |-> r.length,
                  reads |-> r.reads])

CallFindStringTlv ==
    \E aType \in FindTypes, aMax \in ReadStringLengths :
        LET r == FindStringTlv(msg, mOffset, aType, aMax)
        IN Reads([op |-> "FindStringTlv", aType |-> aType, aMaxStringLength |-> aMax,
                  error |-> r.error, value |-> r.value, length |-> r.length,
                  reads |-> r.reads])

CallFindUintTlv ==
    \E aType \in FindTypes, w \in Widths :
        LET r == FindUintTlv(msg, mOffset, aType, w)
        IN Reads([op |-> "FindUintTlv", aType |-> aType, width |-> w,
                  error |-> r.error, value |-> r.value, reads |-> r.reads])

CallFindTlv(Mins) ==
    \E aType \in FindTypes, aLength \in Mins :
        LET r == FindTlv(msg, mOffset, aType, aLength)
        IN Reads([op |-> "FindTlv", aType |-> aType, aMinLength |-> aLength,
                  error |-> r.error, value |-> r.value, reads |-> r.reads])

\* The call returns to its caller.
Return ==
    /\ pc = "done"
    /\ pc' = "idle"
    /\ last' = NoCall
    /\ UNCHANGED <<msg, mOffset, recs, clean, dangling, nMods>>

\* Scanning and decoding messages that hold appended records, received bytes
\* and cut-off tails.
Next ==
    \/ CallAppendTlv(ScanValues, MaxMods)
    \/ CallAppendTo(MaxMods)
    \/ ReceiveBytes(MaxMods)
    \/ SetLength(MaxMods)
    \/ SetOffset
    \/ CallFind
    \/ CallFindTlvValueOffset
    \/ CallReadTlv
    \/ CallReadTlvValue(MinLengths)
    \/ CallReadUintTlv
    \/ CallReadStringTlv
    \/ CallFindStringTlv
    \/ CallFindUintTlv
    \/ CallFindTlv(MinLengths)
    \/ Return

Spec == Init /\ [][Next]_vars

\* The lengths of the values the message's records hold.
RecLengths == {Len(recs[i].val) : i \in 1..Len(recs)}

\* Encoding up to the largest short record, then finding and reading back.
NextEnc ==
    \/ CallAppendTlv(EncValues, MaxEncMods)
    \/ CallAppendUintTlv(MaxEncMods)
    \/ CallAppendStringTlv(MaxEncMods)
    \/ CallFind
    \/ CallReadTlvValue(RecLengths)
    \/ CallFindUintTlv
    \/ CallFindTlv(RecLengths)
    \/ Return

SpecEnc == Init /\ [][NextEnc]_vars

(***************************************************************************)
(* Properties.                                                             *)
(***************************************************************************)
\* The call just made is op.
Did(op) == pc = "done" /\ last.op = op

\* The message is a run of whole records and the read offset is where one
\* starts, or the message's end.
AtRecordBoundary ==
    /\ clean
    /\ \/ mOffset = Len(msg)
       \/ \E i \in 1..Len(recs) : recs[i].off = mOffset

\* The records of type t at or after the read offset, by index.
RecsOfType(t) == {i \in 1..Len(recs) : recs[i].off >= mOffset /\ recs[i].type = t}

FirstOf(S) == CHOOSE i \in S : \A j \in S : i <= j

\* A whole header at offset p announces more value bytes than the message
\* holds after it.
Truncated(p) ==
    /\ p + SizeofTlv <= Len(msg)
    /\ IF msg[p + 2] # kExtendedLength
       THEN p + SizeofTlv + msg[p + 2] > Len(msg)
       ELSE /\ p + SizeofExtendedTlv <= Len(msg)
            /\ p + SizeofExtendedTlv + msg[p + 3] * Uint8Mod + msg[p + 4] > Len(msg)

ReadsInBounds(reads) ==
    \A i \in 1..Len(reads) : reads[i][1] + reads[i][2] <= Len(msg)

\* Where the scan stood in its last iteration.
LastIterOffset == last.iters[Len(last.iters)].offset

\* C1: a record whose whole header announces more value bytes than remain
\* makes Find fail with NotFound and ReadTlv / ReadTlvValue fail with Parse,
\* without a read past the message's end; every record Find matches or steps
\* over lies within the message.
TruncationSafety ==
    /\ Did("Find") =>
         /\ \A i \in 1..Len(last.visited) :
               /\ last.visited[i].offset + last.visited[i].size <= Len(msg)
               /\ ~Truncated(last.visited[i].offset)
         /\ (Len(last.iters) > 0 /\ Truncated(LastIterOffset)) =>
               /\ last.error = kErrorNotFound
               /\ last.offset = NoOut /\ last.size = NoOut /\ last.isExt = NoOut
               /\ ReadsInBounds(last.reads)
    /\ (Did("ReadTlv") /\ Truncated(last.aOffset)) =>
         /\ last.error = kErrorParse
         /\ ReadsInBounds(last.reads)
    /\ (Did("ReadTlvValue") /\ Truncated(last.aOffset)) =>
         /\ last.error = kErrorParse
         /\ last.value = Unwritten(last.aMinLength)
         /\ ReadsInBounds(last.reads)

\* Find stepped over a whole record and then met a truncated one.
TruncationSafetyWitness ==
    /\ Did("Find")
    /\ Len(last.iters) = 2
    /\ Len(last.visited) = 1
    /\ Truncated(LastIterOffset)
    /\ msg[LastIterOffset + 2] # kExtendedLength

\* C3: over whole records, Find returns the offset, size and extended flag
\* of the record of the wanted type with the lowest offset.
FirstMatchWins ==
    (Did("Find") /\ AtRecordBoundary) =>
        IF RecsOfType(last.aType) = {}
        THEN last.error = kErrorNotFound
        ELSE LET r == recs[FirstOf(RecsOfType(last.aType))]
             IN /\ last.error = kErrorNone
                /\ last.offset = r.off
                /\ last.size = (IF msg[r.off + 2] = kExtendedLength THEN 4 ELSE 2) + Len(r.val)
                /\ (last.isExt = 1) = (msg[r.off + 2] = kExtendedLength)
                /\ last.isExt \in {0, 1}

\* Find succeeded where two records carry the wanted type.
FirstMatchWinsWitness ==
    /\ Did("Find") /\ AtRecordBoundary
    /\ Cardinality(RecsOfType(last.aType)) >= 2
    /\ last.error = kErrorNone

\* C8 as stated: a read offset past the message's end makes Find fail with a
\* range error, not NotFound, before any read.
FindOffsetPastEndIsRangeError ==
    (Did("Find") /\ mOffset > Len(msg)) =>
        /\ last.error = kErrorRange
        /\ last.reads = <<>>

\* C8, amended: a read offset past the message's end makes Find fail with
\* NotFound before any read, with no output assigned.
FindOffsetPastEndIsNotFound ==
    (Did("Find") /\ mOffset > Len(msg)) =>
        /\ last.error = kErrorNotFound
        /\ last.reads = <<>>
        /\ last.iters = <<>>
        /\ last.offset = NoOut /\ last.size = NoOut /\ last.isExt = NoOut

\* Find was called with the read offset past the end of a message that
\* holds a record.
FindOffsetPastEndWitness ==
    Did("Find") /\ mOffset > Len(msg) /\ Len(msg) > 0

\* C10: the scan ends; every iteration keeps offset + remainingLen at the
\* message's length, every step advances by the record's size, at least 2;
\* the size returned is the record's size; and over whole records of other
\* types the scan ends NotFound on the failed header read at the end.
ScanTermination ==
    Did("Find") =>
        /\ ~last.diverged
        /\ Len(last.iters) <= (Len(msg) \div SizeofTlv) + 1
        /\ \A i \in 1..Len(last.iters) :
              /\ last.iters[i].offset + last.iters[i].remainingLen = Len(msg)
              /\ last.iters[i].offset < Uint16Mod
        /\ \A i \in 1..(Len(last.iters) - 1) :
              /\ last.iters[i + 1].offset - last.iters[i].offset = last.visited[i].size
              /\ last.iters[i].remainingLen - last.iters[i + 1].remainingLen
                    = last.visited[i].size
              /\ last.visited[i].size >= SizeofTlv
        /\ last.error = kErrorNone =>
              /\ last.size = last.visited[Len(last.visited)].size
              /\ last.offset = last.visited[Len(last.visited)].offset
        /\ (AtRecordBoundary /\ RecsOfType(last.aType) = {}) =>
              /\ last.error = kErrorNotFound
              /\ last.iters[Len(last.iters)].remainingLen = 0
              /\ LastIterOffset = Len(msg)
              /\ last.reads[Len(last.reads)] = <<Len(msg), SizeofTlv>>

\* Find stepped over two records of other types and ended at the message's end.
ScanTerminationWitness ==
    /\ Did("Find") /\ AtRecordBoundary
    /\ last.error = kErrorNotFound
    /\ Len(last.visited) = 2
    /\ LastIterOffset = Len(msg)

\* The message holds one record, appended whole by AppendTlv or
\* AppendUintTlv to the empty message, and the read offset is 0.
OneRecordAppended ==
    /\ pc = "done" /\ clean /\ nMods = 1 /\ Len(recs) = 1 /\ mOffset = 0
    /\ recs[1].by \in {"AppendTlv", "AppendUintTlv"}

\* C2: after one successful append to the empty message, Find finds the
\* record at offset 0 with size 2 + len(v) as a short record, the reads of
\* len(v) bytes return v, and FindUintTlv returns the number appended.
RoundTrip ==
    OneRecordAppended =>
        LET r == recs[1]
        IN /\ (last.op = "Find" /\ last.aType = r.type) =>
                /\ last.error = kErrorNone
                /\ last.offset = 0
                /\ last.size = 2 + Len(r.val)
                /\ last.isExt = 0
           /\ (last.op = "ReadTlvValue" /\ last.aMinLength = Len(r.val)) =>
                /\ last.error = kErrorNone
                /\ last.value = r.val
           /\ (last.op = "FindTlv" /\ last.aType = r.type
                 /\ last.aMinLength = Len(r.val)) =>
                /\ last.error = kErrorNone
                /\ last.value = r.val
           /\ (last.op = "FindUintTlv" /\ last.aType = r.type
                 /\ r.by = "AppendUintTlv" /\ last.width = Len(r.val)) =>
                /\ last.error = kErrorNone
                /\ last.value = r.num

\* A 32-bit number above 2^31 was appended and found again.
RoundTripWitness ==
    /\ OneRecordAppended
    /\ last.op = "FindUintTlv" /\ last.aType = recs[1].type
    /\ recs[1].by = "AppendUintTlv" /\ last.width = 4
    /\ recs[1].num.hi >= 32768
    /\ last.error = kErrorNone

\* C4 as stated: a successful ReadStringTlv copies n = min(L, max_length)
\* bytes to out[0 .. n-1], writes the null at out[n] and writes nothing
\* after it, so nothing beyond out[max_length].
StringTerminatorAfterCopy ==
    (pc = "done" /\ last.op \in {"ReadStringTlv", "FindStringTlv"}
       /\ last.error = kErrorNone) =>
        LET n == Min(last.length, last.aMaxStringLength)
        IN /\ \A i \in 1..n : last.value[i] # NoOut
           /\ last.value[n + 1] = 0
           /\ \A i \in (n + 2)..Len(last.value) : last.value[i] = NoOut

\* The operations that read the message, and whether the outputs of the
\* call just made are all as they were before it.
OutputsUntouched ==
    CASE last.op = "Find" ->
            last.offset = NoOut /\ last.size = NoOut /\ last.isExt = NoOut
      [] last.op \in {"ReadTlv", "FindTlvValueOffset"} ->
            last.length = NoOut /\ last.valueOffset = NoOut
      [] last.op \in {"ReadTlvValue", "FindTlv"} ->
            last.value = Unwritten(last.aMinLength)
      [] last.op \in {"ReadUintTlv", "FindUintTlv"} ->
            last.value = NoUint
      [] last.op \in {"ReadStringTlv", "FindStringTlv"} ->
            last.value = Unwritten(last.aMaxStringLength + 2)
      [] OTHER -> TRUE

Failed == pc = "done" /\ "error" \in DOMAIN last /\ last.error # kErrorNone

\* C5 as stated: a read operation that returns an error has written none of
\* its outputs.
NoPartialResults == Failed => OutputsUntouched

\* C5, amended: a read operation that returns an error has written none of
\* its outputs, except ReadTlv when it returns Parse for a record that
\* overruns the message: its length and value offset are then assigned.
NoPartialResultsButReadTlv ==
    Failed =>
        IF last.op = "ReadTlv" /\ last.error = kErrorParse
        THEN /\ last.length # NoOut /\ last.valueOffset # NoOut
             /\ Truncated(last.aOffset)
        ELSE OutputsUntouched

\* FindTlv found the record and failed on its length, writing nothing.
NoPartialResultsWitness ==
    /\ Failed /\ last.op = "FindTlv" /\ last.error = kErrorParse
    /\ AtRecordBoundary /\ RecsOfType(last.aType) # {}

\* The first w bytes of val as a big-endian number.
BigEndianOf(val, w) ==
    CASE w = 1 -> [hi |-> 0, lo |-> val[1]]
      [] w = 2 -> [hi |-> 0, lo |-> val[1] * 256 + val[2]]
      [] w = 4 -> [hi |-> val[1] * 256 + val[2], lo |-> val[3] * 256 + val[4]]

\* What a read of a number of w bytes from record r must return.
UintReadOf(r, w) ==
    IF Len(r.val) < w
    THEN last.error = kErrorParse /\ last.value = NoUint
    ELSE last.error = kErrorNone /\ last.value = BigEndianOf(r.val, w)

\* What a read of n bytes from record r must return.
BytesReadOf(r, n) ==
    IF Len(r.val) < n
    THEN last.error = kErrorParse /\ last.value = Unwritten(n)
    ELSE last.error = kErrorNone /\ last.value = SubSeq(r.val, 1, n)

\* C6: over whole records, a read of w (or min_length) bytes from a record
\* with fewer value bytes returns Parse and no value; with enough, the
\* first bytes, big-endian for a number; the Find compositions return
\* NotFound when no record has the type.
MinimumLengthEnforced ==
    (pc = "done" /\ AtRecordBoundary) =>
        /\ (last.op = "FindUintTlv") =>
              IF RecsOfType(last.aType) = {}
              THEN last.error = kErrorNotFound /\ last.value = NoUint
              ELSE UintReadOf(recs[FirstOf(RecsOfType(last.aType))], last.width)
        /\ (last.op = "FindTlv") =>
              IF RecsOfType(last.aType) = {}
              THEN last.error = kErrorNotFound /\ last.value = Unwritten(last.aMinLength)
              ELSE BytesReadOf(recs[FirstOf(RecsOfType(last.aType))], last.aMinLength)
        /\ (last.op = "FindStringTlv" /\ RecsOfType(last.aType) = {}) =>
              last.error = kErrorNotFound
        /\ (last.op = "ReadUintTlv" /\ mOffset < Len(msg)) =>
              UintReadOf(recs[FirstOf({i \in 1..Len(recs) : recs[i].off = mOffset})],
                         last.width)
        /\ (last.op = "ReadTlvValue" /\ mOffset < Len(msg)) =>
              BytesReadOf(recs[FirstOf({i \in 1..Len(recs) : recs[i].off = mOffset})],
                          last.aMinLength)

\* FindUintTlv of width 4 met a record whose value has 2 bytes.
MinimumLengthWitness ==
    /\ pc = "done" /\ AtRecordBoundary
    /\ last.op = "FindUintTlv" /\ last.width = 4
    /\ RecsOfType(last.aType) # {}
    /\ Len(recs[FirstOf(RecsOfType(last.aType))].val) = 2
    /\ last.error = kErrorParse

\* The call just made is one of the encoder's, ended or stopped by OT_ASSERT.
DidAppend ==
    /\ pc \in {"done", "aborted"}
    /\ last.op \in {"AppendTlv", "AppendUintTlv", "AppendStringTlv"}

\* The number of value bytes the call just made was asked to append.
AskedLength ==
    CASE last.op = "AppendTlv" -> Len(last.aValue)
      [] last.op = "AppendUintTlv" -> last.aLength
      [] last.op = "AppendStringTlv" ->
            IF last.aValue = NullText THEN 0 ELSE Min(Len(last.aValue), last.aLength)

\* C7 as stated: every call of AppendTlv (0..254 bytes), AppendUintTlv
\* (width 1, 2, 4) and AppendStringTlv (any text, max_length 0..255) meets
\* AppendTlv's assertion length <= 254 and, when the message can grow,
\* appends a short header (type, length_field) with length_field the number
\* of value bytes, never 0xFF, growing the message by 2 + length_field.
EncoderNeverEmitsFF ==
    DidAppend =>
        LET p == Len(last.preMsg)
        IN /\ ~last.asserted
           /\ AskedLength <= kBaseTlvMaxLength
           /\ (last.hdrOk /\ last.valOk) =>
                 /\ last.error = kErrorNone
                 /\ Len(msg) = p + SizeofTlv + AskedLength
                 /\ SubSeq(msg, 1, p) = last.preMsg
                 /\ msg[p + 1] = last.aType
                 /\ msg[p + 2] = AskedLength
                 /\ msg[p + 2] # kExtendedLength

IsPrefix(a, b) == Len(a) <= Len(b) /\ SubSeq(b, 1, Len(a)) = a

\* C9: AppendTlv only adds bytes at the message's end and leaves the read
\* offset alone; a failed header append changes nothing; a failed value
\* append leaves the 2-byte header and no value byte; an empty value is not
\* appended at all and the call succeeds; and Find neither matches nor steps
\* over a header left without its value while the bytes after it are fewer
\* than it announces.
AppendFailureEffects ==
    /\ Did("AppendTlv") =>
         LET hdr == <<last.aType, last.aLength>>
         IN /\ IsPrefix(last.preMsg, msg)
            /\ mOffset = last.preOffset
            /\ ~last.hdrOk =>
                  /\ last.error # kErrorNone /\ msg = last.preMsg /\ last.appends = 1
            /\ (last.hdrOk /\ last.aLength = 0) =>
                  /\ last.error = kErrorNone /\ msg = last.preMsg \o hdr
                  /\ last.appends = 1
            /\ (last.hdrOk /\ last.aLength > 0 /\ ~last.valOk) =>
                  /\ last.error # kErrorNone /\ msg = last.preMsg \o hdr
                  /\ last.appends = 2
            /\ (last.hdrOk /\ last.aLength > 0 /\ last.valOk) =>
                  /\ last.error = kErrorNone
                  /\ msg = last.preMsg \o hdr \o last.aValue
    /\ Did("Find") =>
         \A d \in dangling :
            (d.off + SizeofTlv + d.len > Len(msg)) =>
               /\ last.offset # d.off
               /\ \A i \in 1..Len(last.visited) : last.visited[i].offset # d.off
               /\ (Len(last.iters) > 0 /\ LastIterOffset = d.off) =>
                     last.error = kErrorNotFound

\* Find stepped over a record and failed at a header left without its value.
AppendFailureWitness ==
    /\ Did("Find")
    /\ \E d \in dangling : /\ d.off + SizeofTlv = Len(msg)
                           /\ Len(last.iters) = 2
                           /\ LastIterOffset = d.off
    /\ last.error = kErrorNotFound

====
